---------------------------- MODULE Spec2Model ----------------------------
(***************************************************************************)
(* University Hub: campus event registration on a managed backend.         *)
(*                                                                         *)
(* The state is the relational store (auth.users, profiles, user_roles,    *)
(* events, registrations, teams, team_members) guarded by its constraints  *)
(* and row-level-security policies, plus the local state of each user's    *)
(* browser: its auth session and the auth state of the layout it has       *)
(* mounted, the position of the handler it is running, the handler's       *)
(* locals, and the snapshot of rows its page rendered from.  Every await   *)
(* of a handler is a separate request to the store, so every await is a    *)
(* separate step and other sessions interleave between the steps.          *)
(*                                                                         *)
(* The specifications share the state and the operations:                  *)
(*   Spec          the registration workflow of an individual event,       *)
(*   SpecCapacity  the same on an event with a small capacity,             *)
(*   SpecTeam      the registration workflow of a team event,              *)
(*   SpecOfficers  the officer pages of a team event with several officers,*)
(*   SpecPolicy    the store under requests on registrations of any user,  *)
(*   SpecAccounts  sign up, the onboarding form, requests on profiles,     *)
(*   SpecRoles     user management and requests on user_roles,             *)
(*   SpecProfile   the layout of the protected routes and its profile gate,*)
(*   SpecEvents    the store under requests on events of any user,         *)
(*   SpecTeams     the store under requests on teams and memberships,      *)
(*   SpecCascade   the delete of an event next to writes in progress,      *)
(*   SpecCodes     generate_team_code with few codes left (SpecCodesFair:  *)
(*                 with fair draws),                                       *)
(*   SpecMembers   the event page of a team event: create, join, cancel.   *)
(* Not modelled: announcements, storage, network failures.                 *)
(***************************************************************************)
EXTENDS Integers, FiniteSets, Sequences, TLC

(***************************************************************************)
(* Bounds of the model.                                                    *)
(***************************************************************************)
MaxUsers == 3
MaxEvents == 2
MaxWorkflowEvents == 1
MaxCodes == 2
MaxOwnRegistrations == 2
MaxOwnTeams == 1
MaxOwnMemberships == 2
MaxWorkflowMemberships == 1
MaxConcurrent == 2
MaxMounted == 1
MaxCapacity == 2
MaxTeamSizeInput == 2
DefaultCapacity == 50
MinCapacity == 1

Users == 1..MaxUsers
EventIds == 1..MaxEvents
Codes == 1..MaxCodes
RegIds == 1..(MaxUsers * MaxOwnRegistrations)
TeamIds == 1..(MaxUsers * MaxOwnTeams)
MemberIds == 1..(MaxUsers * MaxOwnMemberships)

\* the value of a reference that is null
Null == 0

Roles == {"admin", "president", "student"}
Statuses == {"pending", "approved", "rejected"}

VARIABLES
    auth_users,     \* rows of auth.users: [id, email]
    profiles,       \* rows of public.profiles: [user_id, profile_completed]
    user_roles,     \* rows of public.user_roles: [user_id, role]
    events,         \* rows of public.events
    registrations,  \* rows of public.registrations: [id, user_id, event_id, status]
    teams,          \* rows of public.teams: [id, event_id, team_code, leader_id]
    team_members,   \* rows of public.team_members: [id, team_id, user_id]
    client,         \* per user: the browser's auth session and the auth state of
                    \* the layout it has mounted
    sess,           \* per user: the browser session's handler position and locals
    reply           \* what the latest step was answered with: "ok" or the error

vars == <<auth_users, profiles, user_roles, events, registrations, teams, team_members,
          client, sess, reply>>
db == <<auth_users, profiles, user_roles, events, registrations, teams, team_members>>


(***************************************************************************)
(* Rows and fresh identifiers.  A generated uuid differs from every id in  *)
(* its table.  The rows a user inserts take their ids from a range of the  *)
(* user's own, the least number of the range that is not in the table: the *)
(* id is fresh, and it does not depend on the order in which different     *)
(* users inserted.  A session remembers only ids of rows that exist.       *)
(***************************************************************************)
Min(S) == CHOOSE x \in S : \A y \in S : x <= y

NoReg == [id |-> Null, status |-> "none"]

\* the ids of the range of user u, k ids per user
IdRange(u, k) == ((u - 1) * k + 1)..(u * k)

FreeRegIds(u) == IdRange(u, MaxOwnRegistrations) \ {r.id : r \in registrations}

FreeTeamIds(u) == IdRange(u, MaxOwnTeams) \ {t.id : t \in teams}

FreeMemberIds(u) == IdRange(u, MaxOwnMemberships) \ {m.id : m \in team_members}

FreeEventIds == EventIds \ {e.id : e \in events}

EventById(e) == CHOOSE ev \in events : ev.id = e

TeamById(t) == CHOOSE tm \in teams : tm.id = t

MembersOf(t) == {m \in team_members : m.team_id = t}

(***************************************************************************)
(* Row-level-security predicates, one per policy.                          *)
(***************************************************************************)
has_role(uid, role) == \E r \in user_roles : r.user_id = uid /\ r.role = role

IsEventCreator(uid, e) == \E ev \in events : ev.id = e /\ ev.created_by = uid

\* an insert policy that asks for the creator only, for comparison
EventInsertAllowedCreator(uid, row) == uid = row.created_by

\* "Presidents can create events"
EventInsertAllowed(uid, row) == has_role(uid, "president") \/ has_role(uid, "admin")

\* "Creators can update own events", "Admins can update any event"
EventUpdateAllowed(uid, row) == uid = row.created_by \/ has_role(uid, "admin")

\* "Creators can delete own events", "Admins can delete any event"
EventDeleteAllowed(uid, row) == uid = row.created_by \/ has_role(uid, "admin")

\* "Users can insert own registrations"
RegInsertAllowed(uid, row) == uid = row.user_id

\* a weaker update policy, for comparison: the creator of any event may update
RegUpdateAllowedAnyCreator(uid, row) ==
    (\E ev \in events : ev.created_by = uid) \/ has_role(uid, "admin")

\* "Event creators can update event registrations", "Admins can update any registration"
RegUpdateAllowed(uid, row) ==
    IsEventCreator(uid, row.event_id) \/ has_role(uid, "admin")

\* "Users can read own registrations", "Event creators can read event
\* registrations", "Admins can read all registrations"
RegReadAllowed(uid, row) ==
    uid = row.user_id \/ IsEventCreator(uid, row.event_id) \/ has_role(uid, "admin")

\* "Users can delete own registrations"
RegDeleteAllowed(uid, row) == uid = row.user_id

\* "Users can create teams", "Event creators can manage event teams" (FOR ALL)
TeamInsertAllowed(uid, row) ==
    uid = row.leader_id \/ IsEventCreator(uid, row.event_id)

\* "Users can join teams", "Team leaders can manage members",
\* "Event creators can manage team members" (both FOR ALL)
MemberInsertAllowed(uid, row) ==
    \/ uid = row.user_id
    \/ \E t \in teams : t.id = row.team_id /\ t.leader_id = uid
    \/ \E t \in teams : t.id = row.team_id /\ IsEventCreator(uid, t.event_id)

\* "Team leaders can update their teams", "Event creators can manage event teams"
TeamUpdateAllowed(uid, row) ==
    uid = row.leader_id \/ IsEventCreator(uid, row.event_id)

\* "Team leaders can delete their teams", "Event creators can manage event teams"
TeamDeleteAllowed(uid, row) ==
    uid = row.leader_id \/ IsEventCreator(uid, row.event_id)

\* "Users can leave teams", "Team leaders can manage members",
\* "Event creators can manage team members"
MemberDeleteAllowed(uid, row) ==
    \/ uid = row.user_id
    \/ \E t \in teams : t.id = row.team_id /\ t.leader_id = uid
    \/ \E t \in teams : t.id = row.team_id /\ IsEventCreator(uid, t.event_id)

\* "Users can insert own profile"
ProfileInsertAllowed(uid, row) == uid = row.user_id

\* "Users can update own profile"
ProfileUpdateAllowed(uid, row) == uid = row.user_id

\* "Users can read own profile", "Admins can read all profiles", "Event creators
\* can read registrant profiles"
ProfileReadAllowed(uid, row) ==
    \/ uid = row.user_id
    \/ has_role(uid, "admin")
    \/ \E r \in registrations :
          r.user_id = row.user_id
          /\ (IsEventCreator(uid, r.event_id) \/ has_role(uid, "admin"))

\* "Users can read own roles", "Admins can read all roles"
RoleReadAllowed(uid, row) == uid = row.user_id \/ has_role(uid, "admin")

\* "Admins can insert roles", "Users can insert own role on signup"
RoleInsertAllowed(uid, row) == has_role(uid, "admin") \/ uid = row.user_id

\* a weaker update policy, for comparison: presidents may update roles too
RoleUpdateAllowedPresident(uid, row) ==
    has_role(uid, "admin") \/ has_role(uid, "president")

\* "Admins can update roles"
RoleUpdateAllowed(uid, row) == has_role(uid, "admin")

(***************************************************************************)
(* Table constraints: what an insert of `row` is answered with; a unique   *)
(* violation is answered with the name of the constraint.                  *)
(***************************************************************************)
\* registrations without UNIQUE (user_id, event_id), for comparison
RegInsertResultNoUnique(uid, row) ==
    IF ~RegInsertAllowed(uid, row) THEN "denied"
    ELSE IF ~(\E ev \in events : ev.id = row.event_id) THEN "fk_violation"
    ELSE "ok"

\* registrations: FK event_id, UNIQUE (user_id, event_id)
RegInsertResult(uid, row) ==
    IF ~RegInsertAllowed(uid, row) THEN "denied"
    ELSE IF ~(\E ev \in events : ev.id = row.event_id) THEN "fk_violation"
    ELSE IF \E r \in registrations :
                r.user_id = row.user_id /\ r.event_id = row.event_id
         THEN "registrations_user_id_event_id_key"
    ELSE "ok"

\* profiles: FK user_id, user_id UNIQUE
ProfileInsertResult(uid, row) ==
    IF ~ProfileInsertAllowed(uid, row) THEN "denied"
    ELSE IF ~(\E a \in auth_users : a.id = row.user_id) THEN "fk_violation"
    ELSE IF \E p \in profiles : p.user_id = row.user_id
         THEN "duplicate key: profiles_user_id_key"
    ELSE "ok"

\* user_roles: FK user_id, UNIQUE (user_id, role)
RoleInsertResult(uid, row) ==
    IF ~RoleInsertAllowed(uid, row) THEN "denied"
    ELSE IF ~(\E a \in auth_users : a.id = row.user_id) THEN "fk_violation"
    ELSE IF row \in user_roles THEN "duplicate key: user_roles_user_id_role_key"
    ELSE "ok"

\* teams without team_code UNIQUE, for comparison
TeamInsertResultNoUnique(uid, row) ==
    IF ~TeamInsertAllowed(uid, row) THEN "denied"
    ELSE IF ~(\E ev \in events : ev.id = row.event_id) THEN "fk_violation"
    ELSE "ok"

\* teams: FK event_id, team_code UNIQUE
TeamInsertResult(uid, row) ==
    IF ~TeamInsertAllowed(uid, row) THEN "denied"
    ELSE IF ~(\E ev \in events : ev.id = row.event_id) THEN "fk_violation"
    ELSE IF \E t \in teams : t.team_code = row.team_code THEN "teams_team_code_key"
    ELSE "ok"

\* team_members: FK team_id, UNIQUE (team_id, user_id)
MemberInsertResult(uid, row) ==
    IF ~MemberInsertAllowed(uid, row) THEN "denied"
    ELSE IF ~(\E t \in teams : t.id = row.team_id) THEN "fk_violation"
    ELSE IF \E m \in team_members :
                m.team_id = row.team_id /\ m.user_id = row.user_id
         THEN "team_members_team_id_user_id_key"
    ELSE "ok"


(***************************************************************************)
(* Sessions.  pc is the await the running handler resumes from; ev, code,  *)
(* team, cnt, mem, st, email are the running handler's locals; reg[e] is   *)
(* the `registration` state of the page that shows event e: the snapshot   *)
(* of the user's own registration the page last fetched or set; count[e]   *)
(* is the page's `registrationCount`.                                      *)
(***************************************************************************)
IdleSession ==
    [pc |-> "idle", reg |-> [e \in EventIds |-> NoReg],
     count |-> [e \in EventIds |-> 0], ev |-> Null, code |-> Null,
     team |-> Null, cnt |-> 0, mem |-> {}, st |-> "none", email |-> <<>>]

\* the session with its handler finished and the handler's locals dropped
Finished(s) ==
    [s EXCEPT !.pc = "idle", !.ev = Null, !.code = Null, !.team = Null, !.cnt = 0,
              !.mem = {}, !.st = "none", !.email = <<>>]

\* the answer of a step that went through
Ok == [op |-> "none", by |-> Null, res |-> "ok"]

\* the answer of a step: for one that did not go through, the handler that sent the
\* request, its user and what came back
Reply(op, u, res) == IF res = "ok" THEN Ok ELSE [op |-> op, by |-> u, res |-> res]

\* the handler a session is inside of
HandlerOf(pc) ==
    CASE pc \in {"ct_rpc", "ct_return", "ct_team", "ct_member", "ct_reg"}
           -> "handleCreateTeam"
      [] pc \in {"jt_check", "jt_member", "jt_reg"} -> "handleJoinTeam"
      [] pc = "ts_update" -> "updateTeamStatus"
      [] pc = "ta_update" -> "handleTeamApproval"
      [] OTHER -> "none"

\* at most MaxConcurrent sessions are inside a handler of several requests
SlotFree == Cardinality({u \in Users : sess[u].pc # "idle"}) < MaxConcurrent

(***************************************************************************)
(* Addresses.  An address is the sequence of the pieces of its text that   *)
(* matter to the role rule; comparing pieces is comparing text, so         *)
(* "IUL.AC.IN" is not "iul.ac.in".                                         *)
(***************************************************************************)
LocalParts == {"amy"}

DomainParts ==
    {<<"iul.ac.in">>, <<"student.", "iul.ac.in">>, <<"IUL.AC.IN">>,
     <<"iul.ac.in", ".example.org">>, <<"example.org">>}

Emails == {<<l, "@">> \o d : l \in LocalParts, d \in DomainParts}

\* String.prototype.endsWith
endsWith(str, suffix) ==
    /\ Len(str) >= Len(suffix)
    /\ SubSeq(str, Len(str) - Len(suffix) + 1, Len(str)) = suffix

\* String.prototype.includes, for comparison with endsWith
includes(str, part) ==
    \E i \in 1..Len(str) :
        i + Len(part) - 1 <= Len(str) /\ SubSeq(str, i, i + Len(part) - 1) = part

\* the role rule with includes in the place of endsWith, for comparison
getRoleFromEmailIncludes(email) ==
    IF includes(email, <<"iul.ac.in">>) THEN "admin" ELSE "student"

\* lib/auth.getRoleFromEmail
getRoleFromEmail(email) ==
    IF endsWith(email, <<"@", "iul.ac.in">>) THEN "admin" ELSE "student"

\* the addresses the accounts of the workflows signed up with
StudentEmail(u) == <<ToString(u), "@", "student.", "iul.ac.in">>

StaffEmail(u) == <<ToString(u), "@", "iul.ac.in">>

(***************************************************************************)
(* The browser of a user: `session` is whether the backend client holds a  *)
(* session of the user (auth.uid() of its requests is the user, else       *)
(* NULL); the rest is the auth state of the layout the browser has         *)
(* mounted: useAuth's user, profileCompleted and isLoading, and how far    *)
(* its two loads have come, the one of the onAuthStateChange listener and  *)
(* the one of getSession().then.                                           *)
(***************************************************************************)
LoadSteps == {"none", "start", "fetch", "read_true", "read_false", "done"}

NoClient ==
    [session |-> FALSE, mounted |-> FALSE, user |-> Null, profileCompleted |-> FALSE,
     isLoading |-> TRUE, listener |-> "none", getSession |-> "none"]

\* a browser signed in as u whose layout has loaded a completed profile
LoadedClient(u) ==
    [session |-> TRUE, mounted |-> TRUE, user |-> u, profileCompleted |-> TRUE,
     isLoading |-> FALSE, listener |-> "done", getSession |-> "done"]

\* auth.uid() of a request of u's browser
auth_uid(u) == IF client[u].session THEN u ELSE Null

\* the accounts of the workflows: everyone signed up as a student and completed the
\* profile, and user 1 has been promoted to president
Init ==
    /\ auth_users = {[id |-> u, email |-> StudentEmail(u)] : u \in Users}
    /\ profiles = {[user_id |-> u, profile_completed |-> TRUE] : u \in Users}
    /\ client = [u \in Users |-> LoadedClient(u)]
    /\ user_roles = {[user_id |-> 1, role |-> "president"]}
                     \cup {[user_id |-> u, role |-> "student"] : u \in Users \ {1}}
    /\ events = {}
    /\ registrations = {}
    /\ teams = {}
    /\ team_members = {}
    /\ sess = [u \in Users |-> IdleSession]
    /\ reply = Ok

(***************************************************************************)
(* Event creation.                                                         *)
(***************************************************************************)
\* the form's choices: registrationType, isPaid, maxTeamSize ("" or a number) and
\* capacity, which the form starts with DefaultCapacity in and takes no less than
\* MinCapacity for
IndividualForms ==
    {[registration_type |-> "individual", is_paid |-> p, max_team_size |-> Null,
      capacity |-> DefaultCapacity] : p \in BOOLEAN}

\* team events are created with a maximum team size, the least the form takes
TeamForms ==
    {[registration_type |-> "team", is_paid |-> p, max_team_size |-> MaxTeamSizeInput,
      capacity |-> DefaultCapacity] : p \in BOOLEAN}

EventForms == IndividualForms \cup TeamForms

\* CreateEvent.onSubmit: one insert into events
InsertEvent(u, f) ==
    /\ sess[u].pc = "idle"
    /\ FreeEventIds # {}
    /\ LET row == [id |-> Min(FreeEventIds), created_by |-> u,
                   registration_type |-> f.registration_type,
                   is_paid |-> f.is_paid, capacity |-> f.capacity,
                   max_team_size |-> IF f.registration_type = "team"
                                     THEN f.max_team_size ELSE Null]
       IN IF EventInsertAllowed(u, row)
          THEN events' = events \cup {row} /\ reply' = Ok
          ELSE UNCHANGED events /\ reply' = Reply("CreateEvent", u, "denied")
    /\ UNCHANGED <<auth_users, profiles, user_roles, registrations, teams, team_members, sess, client>>

\* the workflow specification creates at most MaxWorkflowEvents events
CreateEvent(u, f) ==
    /\ Cardinality(events) < MaxWorkflowEvents
    /\ InsertEvent(u, f)

(***************************************************************************)
(* The event page and the events list: individual registration, cancel.    *)
(***************************************************************************)
OwnRegSnapshot(u, e) ==
    LET own == {r \in registrations : r.user_id = u /\ r.event_id = e}
    IN IF own = {} THEN NoReg
       ELSE LET r == CHOOSE x \in own : TRUE IN [id |-> r.id, status |-> r.status]

\* the count of the event's registrations as a count query of u reads it: the rows
\* the read policies let u see
VisibleCount(u, e) ==
    Cardinality({r \in registrations : r.event_id = e /\ RegReadAllowed(u, r)})

\* EventDetails.fetchEventDetails: load the registration count and the user's own
\* registration for the event into the page state
fetchEventDetails(u, e) ==
    /\ sess[u].pc = "idle"
    /\ \E ev \in events : ev.id = e
    /\ sess' = [sess EXCEPT ![u].reg[e] = OwnRegSnapshot(u, e),
                            ![u].count[e] = VisibleCount(u, e)]
    /\ reply' = Ok
    /\ UNCHANGED <<db, client>>

\* the status EventDetails.handleRegister inserts
DetailsRegisterStatus(ev) == "approved"

\* the status Events.handleRegister inserts
ListRegisterStatus(ev) == "pending"

\* the insert with the capacity read again by the store at the insert, for comparison
InsertOwnRegistrationIfNotFull(u, e, status, op) ==
    LET row == [id |-> Min(FreeRegIds(u)), user_id |-> u, event_id |-> e,
                status |-> status]
        full == Cardinality({r \in registrations : r.event_id = e})
                   >= EventById(e).capacity
        res == IF full THEN "event_full" ELSE RegInsertResult(u, row)
    IN /\ FreeRegIds(u) # {}
       /\ IF res = "ok"
          THEN /\ registrations' = registrations \cup {row}
               /\ sess' = [sess EXCEPT ![u].reg[e] = [id |-> row.id, status |-> status],
                                       ![u].count[e] = @ + 1]
          ELSE /\ UNCHANGED registrations
               /\ sess' = [sess EXCEPT ![u].reg[e] = NoReg]
       /\ reply' = Reply(op, u, res)
       /\ UNCHANGED <<auth_users, profiles, user_roles, events, teams, team_members, client>>

\* one insert into registrations by session u, and the page state that follows
InsertOwnRegistration(u, e, status, op) ==
    LET row == [id |-> Min(FreeRegIds(u)), user_id |-> u, event_id |-> e,
                status |-> status]
        res == RegInsertResult(u, row)
    IN /\ FreeRegIds(u) # {}
       /\ IF res = "ok"
          THEN /\ registrations' = registrations \cup {row}
               /\ sess' = [sess EXCEPT ![u].reg[e] = [id |-> row.id, status |-> status],
                                       ![u].count[e] = @ + 1]
          ELSE /\ UNCHANGED registrations
               /\ sess' = [sess EXCEPT ![u].reg[e] = NoReg]
       /\ reply' = Reply(op, u, res)
       /\ UNCHANGED <<auth_users, profiles, user_roles, events, teams, team_members, client>>

\* EventDetails / EventCard: isFull
isFull(registrationCount, ev) == registrationCount >= ev.capacity

\* EventDetails.handleRegister: the button of an individual event's page while the
\* page holds no registration, disabled while the page's count makes the event full
handleRegister(u, e) ==
    /\ sess[u].pc = "idle"
    /\ \E ev \in events : ev.id = e /\ ev.registration_type = "individual"
    /\ sess[u].reg[e] = NoReg
    /\ ~isFull(sess[u].count[e], EventById(e))
    /\ InsertOwnRegistration(u, e, DetailsRegisterStatus(EventById(e)), "handleRegister")

\* Events.handleRegister: the card's Register button, shown on every event the list
\* holds no registration for.  The list keeps a `registrations` state of its own,
\* loaded when the list was opened, which is not tracked here: a list opened before
\* the user registered still shows the button.
listHandleRegister(u, e) ==
    /\ sess[u].pc = "idle"
    /\ \E ev \in events : ev.id = e
    /\ FreeRegIds(u) # {}
    /\ LET row == [id |-> Min(FreeRegIds(u)), user_id |-> u, event_id |-> e,
                   status |-> ListRegisterStatus(EventById(e))]
           res == RegInsertResult(u, row)
       IN /\ registrations' = IF res = "ok" THEN registrations \cup {row}
                              ELSE registrations
          /\ reply' = Reply("listHandleRegister", u, res)
    /\ UNCHANGED <<auth_users, profiles, user_roles, events, teams, team_members, sess, client>>

\* the rows a delete by u of the registration with this id removes
DeletedRegistrations(u, regId) ==
    {r \in registrations : r.id = regId /\ RegDeleteAllowed(u, r)}

\* EventDetails.handleCancelRegistration: the button shown while the page's
\* snapshot is pending; deletes by the snapshot's id; a delete that matches no
\* row is no error
handleCancelRegistration(u, e) ==
    /\ sess[u].pc = "idle"
    /\ sess[u].reg[e] # NoReg
    /\ sess[u].reg[e].status = "pending"
    /\ LET hit == DeletedRegistrations(u, sess[u].reg[e].id)
       IN /\ registrations' = registrations \ hit
          /\ reply' = Reply("handleCancelRegistration", u,
                            IF hit = {} THEN "no_rows" ELSE "ok")
    /\ sess' = [sess EXCEPT ![u].reg[e] = NoReg, ![u].count[e] = @ - 1]
    /\ UNCHANGED <<auth_users, profiles, user_roles, events, teams, team_members, client>>

(***************************************************************************)
(* Team registration: create a team, join a team by code.                  *)
(***************************************************************************)
\* the page offers "Create or Join Team" on a team event it holds no registration
\* for, disabled while the page's count makes the event full
TeamRegistrationShown(u, e) ==
    /\ sess[u].pc = "idle" /\ SlotFree
    /\ \E ev \in events : ev.id = e /\ ev.registration_type = "team"
    /\ sess[u].reg[e] = NoReg
    /\ ~isFull(sess[u].count[e], EventById(e))

\* handleCreateTeam up to its first await: the rpc to generate_team_code is sent
handleCreateTeam(u, e) ==
    /\ TeamRegistrationShown(u, e)
    /\ sess' = [sess EXCEPT ![u].pc = "ct_rpc", ![u].ev = e]
    /\ reply' = Ok
    /\ UNCHANGED <<db, client>>

\* a function that takes every code for free, for comparison
code_exists_never(c) == FALSE

\* generate_team_code: code_exists, as the SELECT EXISTS reads it
code_exists(c) == \E t \in teams : t.team_code = c

\* generate_team_code, one turn of the LOOP in which random() gives the code c:
\* read code_exists, EXIT WHEN NOT code_exists
generate_team_code_draw(u, c) ==
    /\ sess[u].pc = "ct_rpc"
    /\ sess' = IF code_exists(c) THEN sess
               ELSE [sess EXCEPT ![u].pc = "ct_return", ![u].code = c]
    /\ reply' = Ok
    /\ UNCHANGED <<db, client>>

\* generate_team_code, one turn of the LOOP: draw a code of the code space
generate_team_code_loop(u) == \E c \in Codes : generate_team_code_draw(u, c)

\* generate_team_code: RETURN new_code, and the client resumes with the code
generate_team_code_return(u) ==
    /\ sess[u].pc = "ct_return"
    /\ sess' = [sess EXCEPT ![u].pc = "ct_team"]
    /\ reply' = Ok
    /\ UNCHANGED <<db, client>>

\* handleCreateTeam: create team
createTeamInsertTeam(u) ==
    /\ sess[u].pc = "ct_team"
    /\ FreeTeamIds(u) # {}
    /\ LET row == [id |-> Min(FreeTeamIds(u)), event_id |-> sess[u].ev,
                   team_code |-> sess[u].code, leader_id |-> u]
           res == TeamInsertResult(u, row)
       IN /\ IF res = "ok"
             THEN /\ teams' = teams \cup {row}
                  /\ sess' = [sess EXCEPT ![u].pc = "ct_member", ![u].team = row.id]
             ELSE /\ UNCHANGED teams
                  /\ sess' = [sess EXCEPT ![u] = Finished(@)]
          /\ reply' = Reply("handleCreateTeam", u, res)
    /\ UNCHANGED <<auth_users, profiles, user_roles, events, registrations, team_members, client>>

\* one insert into team_members by session u for itself
InsertOwnMembership(u, next) ==
    LET row == [id |-> Min(FreeMemberIds(u)), team_id |-> sess[u].team, user_id |-> u]
        res == MemberInsertResult(u, row)
    IN /\ FreeMemberIds(u) # {}
       /\ IF res = "ok"
          THEN /\ team_members' = team_members \cup {row}
               /\ sess' = [sess EXCEPT ![u].pc = next]
          ELSE /\ UNCHANGED team_members
               /\ sess' = [sess EXCEPT ![u] = Finished(@)]
       /\ reply' = Reply(HandlerOf(sess[u].pc), u, res)
       /\ UNCHANGED <<auth_users, profiles, user_roles, events, registrations, teams, client>>

\* handleCreateTeam: add leader as first team member
createTeamInsertMember(u) ==
    /\ sess[u].pc = "ct_member"
    /\ InsertOwnMembership(u, "ct_reg")


\* the last insert with a compensating delete of what the handler wrote before, for
\* comparison
InsertTeamRegistrationWithRollback(u, status) ==
    LET row == [id |-> Min(FreeRegIds(u)), user_id |-> u, event_id |-> sess[u].ev,
                status |-> status]
        res == RegInsertResult(u, row)
    IN /\ FreeRegIds(u) # {}
       /\ registrations' = IF res = "ok" THEN registrations \cup {row}
                           ELSE registrations
       /\ team_members' = IF res = "ok" THEN team_members
                          ELSE {m \in team_members :
                                   ~(m.team_id = sess[u].team /\ m.user_id = u)}
       /\ teams' = IF res = "ok" THEN teams
                   ELSE {t \in teams : ~(t.id = sess[u].team /\ t.leader_id = u)}
       /\ sess' = [sess EXCEPT ![u] = Finished(@)]
       /\ reply' = Reply(HandlerOf(sess[u].pc), u, res)
       /\ UNCHANGED <<auth_users, profiles, user_roles, events, client>>

\* the last insert of create and join: the registration, then the handler ends
InsertTeamRegistration(u, status) ==
    LET row == [id |-> Min(FreeRegIds(u)), user_id |-> u, event_id |-> sess[u].ev,
                status |-> status]
        res == RegInsertResult(u, row)
    IN /\ FreeRegIds(u) # {}
       /\ registrations' = IF res = "ok" THEN registrations \cup {row}
                           ELSE registrations
       /\ sess' = [sess EXCEPT ![u] = Finished(@)]
       /\ reply' = Reply(HandlerOf(sess[u].pc), u, res)
       /\ UNCHANGED <<auth_users, profiles, user_roles, events, teams, team_members, client>>

\* the registration status of the team component that takes isPaid
PaidAwareStatus(ev) == IF ev.is_paid THEN "pending" ELSE "approved"

\* the registration status of components/events/TeamRegistration.tsx
TeamRegistrationStatus(ev) == "pending"

\* handleCreateTeam: create registration (the component that takes isPaid)
createTeamInsertRegistration(u) ==
    /\ sess[u].pc = "ct_reg"
    /\ InsertTeamRegistration(u, PaidAwareStatus(EventById(sess[u].ev)))

\* handleCreateTeam: create registration (components/events/TeamRegistration.tsx)
teamRegistrationCreateInsertRegistration(u) ==
    /\ sess[u].pc = "ct_reg"
    /\ InsertTeamRegistration(u, TeamRegistrationStatus(EventById(sess[u].ev)))

\* handleJoinTeam, first await: find team by code and event, with its member count
handleJoinTeam(u, e, c) ==
    /\ TeamRegistrationShown(u, e)
    /\ LET found == {t \in teams : t.team_code = c /\ t.event_id = e}
       IN IF found = {}
          THEN /\ reply' = Reply("handleJoinTeam", u, "team_not_found")
               /\ UNCHANGED sess
          ELSE LET t == CHOOSE x \in found : TRUE
               IN /\ sess' = [sess EXCEPT ![u].pc = "jt_check", ![u].ev = e,
                                           ![u].team = t.id,
                                           ![u].cnt = Cardinality(MembersOf(t.id))]
                  /\ reply' = Ok
    /\ UNCHANGED <<db, client>>

\* the checks in the other order, for comparison: the size limit first
JoinValidationSizeFirst(existing, memberCount, maxTeamSize) ==
    IF maxTeamSize # Null /\ memberCount >= maxTeamSize THEN "team_full"
    ELSE IF existing THEN "already_member"
    ELSE "ok"

\* what the checks after the lookup answer: existingMember first, then the size limit
JoinValidation(existing, memberCount, maxTeamSize) ==
    IF existing THEN "already_member"
    ELSE IF maxTeamSize # Null /\ memberCount >= maxTeamSize THEN "team_full"
    ELSE "ok"

\* handleJoinTeam, second await: read the own membership, then check the size limit
joinTeamCheck(u) ==
    /\ sess[u].pc = "jt_check"
    /\ LET existing == \E m \in team_members :
                           m.team_id = sess[u].team /\ m.user_id = u
           v == JoinValidation(existing, sess[u].cnt,
                               EventById(sess[u].ev).max_team_size)
       IN /\ sess' = IF v = "ok" THEN [sess EXCEPT ![u].pc = "jt_member"]
                     ELSE [sess EXCEPT ![u] = Finished(@)]
          /\ reply' = Reply("handleJoinTeam", u, v)
    /\ UNCHANGED <<db, client>>

\* handleJoinTeam: join team
joinTeamInsertMember(u) ==
    /\ sess[u].pc = "jt_member"
    /\ InsertOwnMembership(u, "jt_reg")

\* handleJoinTeam: create registration (the component that takes isPaid)
joinTeamInsertRegistration(u) ==
    /\ sess[u].pc = "jt_reg"
    /\ InsertTeamRegistration(u, PaidAwareStatus(EventById(sess[u].ev)))

\* handleJoinTeam: create registration (components/events/TeamRegistration.tsx)
teamRegistrationJoinInsertRegistration(u) ==
    /\ sess[u].pc = "jt_reg"
    /\ InsertTeamRegistration(u, TeamRegistrationStatus(EventById(sess[u].ev)))

(***************************************************************************)
(* Officer pages: the participant sheet of ManageEvents and the pending    *)
(* teams of the Dashboard.  A page's list is read in the step of the click *)
(* on it.                                                                  *)
(***************************************************************************)
\* the status a page reads for a team: the leader's registration, as far as the
\* reader may see it ("none" when the query returns no row)
LeaderStatus(u, t) ==
    LET rows == {r \in registrations : /\ r.event_id = t.event_id
                                       /\ r.user_id = t.leader_id
                                       /\ RegReadAllowed(u, r)}
    IN IF rows = {} THEN "none" ELSE (CHOOSE r \in rows : TRUE).status

\* ManageEvents lists every event for an admin and own events for anyone else
ManagedEvents(u) ==
    {ev \in events : has_role(u, "admin") \/ ev.created_by = u}

\* an update of registrations by u: the rows of `target` the policy lets u update
\* get the new status; rows it hides are skipped without an error
UpdateRegistrations(u, target, newStatus) ==
    LET hit == {r \in target : RegUpdateAllowed(u, r)}
    IN (registrations \ hit) \cup {[r EXCEPT !.status = newStatus] : r \in hit}

\* the request of updateRegistrationStatus: update the status where id = regId
UpdateRegistrationById(u, regId, newStatus) ==
    /\ sess[u].pc = "idle"
    /\ LET target == {r \in registrations : r.id = regId}
       IN /\ registrations' = UpdateRegistrations(u, target, newStatus)
          /\ reply' = Reply("updateRegistrationStatus", u,
                            IF \E r \in target : RegUpdateAllowed(u, r)
                            THEN "ok" ELSE "no_rows")
    /\ UNCHANGED <<auth_users, profiles, user_roles, events, teams, team_members, sess, client>>

\* ManageEvents.updateRegistrationStatus: Approve / Reject on a row the sheet of an
\* individual event shows as pending
updateRegistrationStatus(u, regId, newStatus) ==
    /\ \E r \in registrations :
          /\ r.id = regId /\ r.status = "pending" /\ RegReadAllowed(u, r)
          /\ \E ev \in ManagedEvents(u) :
                ev.id = r.event_id /\ ev.registration_type = "individual"
    /\ UpdateRegistrationById(u, regId, newStatus)

\* first await of a team approval: get all team members
TeamStatusReadMembers(u, teamId, newStatus, next) ==
    LET members == {m.user_id : m \in MembersOf(teamId)}
    IN /\ sess' = IF members = {} THEN sess
                  ELSE [sess EXCEPT ![u].pc = next, ![u].team = teamId,
                                    ![u].ev = TeamById(teamId).event_id,
                                    ![u].mem = members, ![u].st = newStatus]
       /\ reply' = Ok
       /\ UNCHANGED <<db, client>>

\* second await of a team approval: update all team members' registrations
TeamStatusUpdate(u) ==
    LET target == {r \in registrations :
                      r.event_id = sess[u].ev /\ r.user_id \in sess[u].mem}
    IN /\ registrations' = UpdateRegistrations(u, target, sess[u].st)
       /\ sess' = [sess EXCEPT ![u] = Finished(@)]
       /\ reply' = Reply(HandlerOf(sess[u].pc), u,
                         IF \E r \in target : RegUpdateAllowed(u, r)
                         THEN "ok" ELSE "no_rows")
       /\ UNCHANGED <<auth_users, profiles, user_roles, events, teams, team_members, client>>

\* the participant sheet of ManageEvents shows Approve Team / Reject on a team of a
\* managed team event whose status (the leader's, pending when there is none)
\* shows pending
TeamButtonsShown(u, t) ==
    /\ \E ev \in ManagedEvents(u) :
          ev.id = t.event_id /\ ev.registration_type = "team"
    /\ LeaderStatus(u, t) \in {"pending", "none"}

\* ManageEvents.updateTeamStatus: a click on Approve Team / Reject
updateTeamStatus(u, teamId, newStatus) ==
    /\ sess[u].pc = "idle" /\ SlotFree
    /\ \E t \in teams : t.id = teamId /\ TeamButtonsShown(u, t)
    /\ TeamStatusReadMembers(u, teamId, newStatus, "ts_update")

updateTeamStatusUpdate(u) ==
    /\ sess[u].pc = "ts_update"
    /\ TeamStatusUpdate(u)

\* Dashboard.fetchDashboardData: the pending teams listed for a president or admin:
\* the teams of the managed events whose leader's registration is pending
PendingTeamListed(u, t) ==
    /\ has_role(u, "president") \/ has_role(u, "admin")
    /\ \E ev \in ManagedEvents(u) : ev.id = t.event_id
    /\ LeaderStatus(u, t) = "pending"

\* Dashboard.handleTeamApproval: Approve / Reject on a listed pending team
handleTeamApproval(u, teamId, newStatus) ==
    /\ sess[u].pc = "idle" /\ SlotFree
    /\ \E t \in teams : t.id = teamId /\ PendingTeamListed(u, t)
    /\ TeamStatusReadMembers(u, teamId, newStatus, "ta_update")

handleTeamApprovalUpdate(u) ==
    /\ sess[u].pc = "ta_update"
    /\ TeamStatusUpdate(u)

\* the decisions the team workflow takes on a team
TeamDecisions == {"approved"}

(***************************************************************************)
(* Accounts: sign up, sign in, the onboarding form, user management.       *)
(***************************************************************************)
\* lib/auth.signUp, first await: the identity provider's signUp.  It answers with
\* an error, which signUp throws, when the address belongs to another account or,
\* as the provider is set up, to this one; else with the user, and with a session
\* unless the address has to be confirmed first.
signUp(u, email, hasSession) ==
    /\ sess[u].pc = "idle"
    /\ ~client[u].session
    /\ LET mine == {a \in auth_users : a.id = u}
           taken == \E a \in auth_users : a.email = email /\ a.id # u
       IN \/ /\ taken \/ mine # {}
             /\ reply' = Reply("signUp", u, "User already registered")
             /\ UNCHANGED <<auth_users, sess, client>>
          \/ /\ ~taken
             /\ \A a \in mine : a.email = email /\ ~hasSession
             /\ auth_users' = auth_users \cup {[id |-> u, email |-> email]}
             /\ sess' = [sess EXCEPT ![u].pc = "su_profile", ![u].email = email]
             /\ client' = [client EXCEPT ![u].session = hasSession]
             /\ reply' = Ok
    /\ UNCHANGED <<profiles, user_roles, events, registrations, teams, team_members>>

\* error.message.includes('duplicate'), of the answer of an insert
messageIncludesDuplicate(res) ==
    res \in {"duplicate key: profiles_user_id_key",
             "duplicate key: user_roles_user_id_role_key"}

\* signUp, what it does with the answer of one of its inserts: an error that is a
\* duplicate is passed over, any other error is written to the console; signUp
\* goes on in every case
signUpAfterInsert(res) ==
    IF res = "ok" THEN "continue"
    ELSE IF messageIncludesDuplicate(res) THEN "continue"
    ELSE "continue"

\* signUp, second await: create profile entry
signUpInsertProfile(u) ==
    /\ sess[u].pc = "su_profile"
    /\ LET row == [user_id |-> u, profile_completed |-> FALSE]
           res == ProfileInsertResult(auth_uid(u), row)
       IN /\ profiles' = IF res = "ok" THEN profiles \cup {row} ELSE profiles
          /\ sess' = IF signUpAfterInsert(res) = "continue"
                     THEN [sess EXCEPT ![u].pc = "su_role"]
                     ELSE [sess EXCEPT ![u] = Finished(@)]
          /\ reply' = Reply("signUp.profiles", u, res)
    /\ UNCHANGED <<auth_users, user_roles, events, registrations, teams, team_members,
                   client>>

\* signUp, third await: create user role entry, then return data
signUpInsertRole(u) ==
    /\ sess[u].pc = "su_role"
    /\ LET row == [user_id |-> u, role |-> getRoleFromEmail(sess[u].email)]
           res == RoleInsertResult(auth_uid(u), row)
       IN /\ user_roles' = IF res = "ok" THEN user_roles \cup {row} ELSE user_roles
          /\ sess' = [sess EXCEPT ![u] = Finished(@)]
          /\ reply' = Reply("signUp.user_roles", u, res)
    /\ UNCHANGED <<auth_users, profiles, events, registrations, teams, team_members,
                   client>>

\* lib/auth.signIn, by a user who has an account (and has confirmed the address)
signIn(u) ==
    /\ sess[u].pc = "idle"
    /\ ~client[u].session
    /\ \E a \in auth_users : a.id = u
    /\ client' = [client EXCEPT ![u].session = TRUE]
    /\ reply' = Ok
    /\ UNCHANGED <<db, sess>>

\* a request to update profile_completed where user_id = target: the rows the
\* policy lets the requester update get the value
UpdateProfileCompleted(u, target, flag) ==
    /\ sess[u].pc = "idle"
    /\ LET hit == {p \in profiles :
                      p.user_id = target /\ ProfileUpdateAllowed(auth_uid(u), p)}
       IN /\ profiles' = (profiles \ hit)
                           \cup {[p EXCEPT !.profile_completed = flag] : p \in hit}
          /\ reply' = Reply("UpdateProfileCompleted", u,
                            IF hit = {} THEN "no_rows" ELSE "ok")
    /\ UNCHANGED <<auth_users, user_roles, events, registrations, teams, team_members,
                   sess, client>>

\* CompleteProfile.onSubmit: the onboarding form of a signed-in user; an update
\* that matches no row is no error
onSubmit(u) ==
    /\ client[u].session
    /\ UpdateProfileCompleted(u, u, TRUE)

\* a request to insert a row into user_roles; the answers of the requests on
\* user_roles are kept with their requester also when they went through
InsertRole(u, target, role) ==
    /\ sess[u].pc = "idle"
    /\ LET row == [user_id |-> target, role |-> role]
           res == RoleInsertResult(auth_uid(u), row)
       IN /\ user_roles' = IF res = "ok" THEN user_roles \cup {row} ELSE user_roles
          /\ reply' = [op |-> "InsertRole", by |-> u, res |-> res]
    /\ UNCHANGED <<auth_users, profiles, events, registrations, teams, team_members,
                   sess, client>>

\* a request to update role where user_id = target: the rows the policy lets the
\* requester update get the role; rows it hides are skipped without an error; two
\* rows of the target that would get the same role violate UNIQUE (user_id, role)
UpdateRoleByUserId(u, target, role) ==
    /\ sess[u].pc = "idle"
    /\ LET hit == {r \in user_roles :
                      r.user_id = target /\ RoleUpdateAllowed(auth_uid(u), r)}
           after == (user_roles \ hit) \cup {[r EXCEPT !.role = role] : r \in hit}
           res == IF hit = {} THEN "no_rows"
                  ELSE IF Cardinality(after) < Cardinality(user_roles)
                       THEN "duplicate key: user_roles_user_id_role_key"
                  ELSE "ok"
       IN /\ user_roles' = IF res = "ok" THEN after ELSE user_roles
          /\ reply' = [op |-> "UpdateRoleByUserId", by |-> u, res |-> res]
    /\ UNCHANGED <<auth_users, profiles, events, registrations, teams, team_members,
                   sess, client>>

\* UserManagement.fetchUsers: the roles the page can list for a user it lists: the
\* role of a row of the user it can read, 'student' when it can read none; a user
\* is listed when the page can read the user's profile
ListedRoles(u, target) ==
    LET rows == {r \in user_roles :
                    r.user_id = target /\ RoleReadAllowed(auth_uid(u), r)}
    IN IF \A p \in profiles : p.user_id = target => ~ProfileReadAllowed(auth_uid(u), p)
       THEN {}
       ELSE IF rows = {} THEN {"student"} ELSE {r.role : r \in rows}

\* UserManagement.promoteToPresident: "Make President" on a user listed as student
promoteToPresident(u, target) ==
    /\ client[u].session
    /\ "student" \in ListedRoles(u, target)
    /\ UpdateRoleByUserId(u, target, "president")

\* UserManagement.demoteToStudent: "Remove President" on a user listed as president
demoteToStudent(u, target) ==
    /\ client[u].session
    /\ "president" \in ListedRoles(u, target)
    /\ UpdateRoleByUserId(u, target, "student")

(***************************************************************************)
(* SpecAccounts: accounts from nothing: sign up, sign in, the onboarding   *)
(* form, and the requests on profiles of any user, whatever the pages      *)
(* offer.                                                                  *)
(***************************************************************************)
InitAccounts ==
    /\ auth_users = {}
    /\ profiles = {}
    /\ user_roles = {}
    /\ events = {}
    /\ registrations = {}
    /\ teams = {}
    /\ team_members = {}
    /\ client = [u \in Users |-> NoClient]
    /\ sess = [u \in Users |-> IdleSession]
    /\ reply = Ok

NextAccounts ==
    \E u \in Users :
        \/ \E email \in Emails, hasSession \in BOOLEAN : signUp(u, email, hasSession)
        \/ signUpInsertProfile(u)
        \/ signUpInsertRole(u)
        \/ signIn(u)
        \/ onSubmit(u)
        \/ \E t \in Users, flag \in BOOLEAN : UpdateProfileCompleted(u, t, flag)

SpecAccounts == InitAccounts /\ [][NextAccounts]_vars

(***************************************************************************)
(* SpecRoles: user management and the requests on user_roles of any user,  *)
(* whatever the pages offer.  User 1 signed up with a staff address, the   *)
(* others but the last with student addresses; the last signs up during    *)
(* the run.                                                                *)
(***************************************************************************)
InitRoles ==
    /\ auth_users = {[id |-> 1, email |-> StaffEmail(1)]}
                     \cup {[id |-> u, email |-> StudentEmail(u)]
                              : u \in Users \ {1, MaxUsers}}
    /\ profiles = {[user_id |-> u, profile_completed |-> TRUE]
                      : u \in Users \ {MaxUsers}}
    /\ user_roles = {[user_id |-> 1, role |-> "admin"]}
                     \cup {[user_id |-> u, role |-> "student"]
                              : u \in Users \ {1, MaxUsers}}
    /\ events = {}
    /\ registrations = {}
    /\ teams = {}
    /\ team_members = {}
    /\ client = [u \in Users |-> IF u = MaxUsers THEN NoClient ELSE LoadedClient(u)]
    /\ sess = [u \in Users |-> IdleSession]
    /\ reply = Ok

\* the addresses the last user signs up with
RolesEmails == {e \in Emails : e[3] = "iul.ac.in"}

NextRoles ==
    \E u \in Users :
        \/ \E email \in RolesEmails, hasSession \in BOOLEAN :
              signUp(u, email, hasSession)
        \/ signUpInsertProfile(u)
        \/ signUpInsertRole(u)
        \/ signIn(u)
        \/ \E t \in Users : promoteToPresident(u, t)
        \/ \E t \in Users : demoteToStudent(u, t)
        \/ \E t \in Users, role \in Roles : InsertRole(u, t, role)
        \/ \E t \in Users, role \in Roles : UpdateRoleByUserId(u, t, role)

SpecRoles == InitRoles /\ [][NextRoles]_vars

(***************************************************************************)
(* The layout of the protected routes and its auth state.                  *)
(***************************************************************************)
\* App: the routes that are children of <Route element={<AppLayout />}>
LayoutRoutes ==
    {"/dashboard", "/events", "/events/:id", "/registrations", "/events/create",
     "/events/manage", "/announcements/create", "/admin", "/admin/users"}

\* App: the routes outside the layout
PublicRoutes == {"/", "/auth", "/complete-profile", "*"}

\* AppLayout without the profile check, for comparison
AppLayoutNoProfileCheck(c) ==
    IF ~c.mounted THEN "none"
    ELSE IF c.isLoading THEN "Loading..."
    ELSE IF c.user = Null THEN "/auth"
    ELSE "Outlet"

\* AppLayout: what the layout with auth state c renders: the loader, a redirect,
\* or the protected screen of the route
AppLayout(c) ==
    IF ~c.mounted THEN "none"
    ELSE IF c.isLoading THEN "Loading..."
    ELSE IF c.user = Null THEN "/auth"
    ELSE IF ~c.profileCompleted THEN "/complete-profile"
    ELSE "Outlet"

\* lib/auth.isProfileCompleted as a request of u's browser answers it: false
\* without a user, false without a row
isProfileCompleted(u) ==
    /\ client[u].session
    /\ \E p \in profiles : /\ p.user_id = u
                           /\ ProfileReadAllowed(auth_uid(u), p)
                           /\ p.profile_completed

\* at most MaxMounted browsers have the layout mounted
MountFree == Cardinality({u \in Users : client[u].mounted}) < MaxMounted

\* a browser opens a protected route: AppLayout mounts and useAuth starts with its
\* initial state, the listener subscribed and getSession() called
mountAppLayout(u) ==
    /\ ~client[u].mounted /\ MountFree
    /\ client' = [client EXCEPT ![u] =
                     [session |-> @.session, mounted |-> TRUE, user |-> Null,
                      profileCompleted |-> FALSE, isLoading |-> TRUE,
                      listener |-> "start", getSession |-> "start"]]
    /\ reply' = Ok
    /\ UNCHANGED <<db, sess>>

\* useAuth, the onAuthStateChange callback on the initial session: user is set at
\* once; with a user the fetch is deferred, without one the loading ends
onAuthStateChange(u) ==
    /\ client[u].mounted /\ client[u].listener = "start"
    /\ client' = IF client[u].session
                 THEN [client EXCEPT ![u].user = u, ![u].listener = "fetch"]
                 ELSE [client EXCEPT ![u].user = Null, ![u].profileCompleted = FALSE,
                                     ![u].isLoading = FALSE, ![u].listener = "done"]
    /\ reply' = Ok
    /\ UNCHANGED <<db, sess>>

\* the deferred fetch of the callback: isProfileCompleted() is answered
onAuthStateChangeFetch(u) ==
    /\ client[u].mounted /\ client[u].listener = "fetch"
    /\ client' = [client EXCEPT ![u].listener =
                     IF isProfileCompleted(u) THEN "read_true" ELSE "read_false"]
    /\ reply' = Ok
    /\ UNCHANGED <<db, sess>>

\* the deferred fetch of the callback: setAuthState(prev => ...)
onAuthStateChangeSet(u) ==
    /\ client[u].mounted /\ client[u].listener \in {"read_true", "read_false"}
    /\ client' = [client EXCEPT ![u].profileCompleted = (client[u].listener = "read_true"),
                                ![u].isLoading = FALSE, ![u].listener = "done"]
    /\ reply' = Ok
    /\ UNCHANGED <<db, sess>>

\* getSession().then: with a user the fetch starts, without one the state is set
getSessionThen(u) ==
    /\ client[u].mounted /\ client[u].getSession = "start"
    /\ client' = IF client[u].session
                 THEN [client EXCEPT ![u].getSession = "fetch"]
                 ELSE [client EXCEPT ![u].user = Null, ![u].profileCompleted = FALSE,
                                     ![u].isLoading = FALSE, ![u].getSession = "done"]
    /\ reply' = Ok
    /\ UNCHANGED <<db, sess>>

\* getSession().then: isProfileCompleted() is answered
getSessionFetch(u) ==
    /\ client[u].mounted /\ client[u].getSession = "fetch"
    /\ client' = [client EXCEPT ![u].getSession =
                     IF isProfileCompleted(u) THEN "read_true" ELSE "read_false"]
    /\ reply' = Ok
    /\ UNCHANGED <<db, sess>>

\* getSession().then: setAuthState({session, user: session.user, ...})
getSessionSet(u) ==
    /\ client[u].mounted /\ client[u].getSession \in {"read_true", "read_false"}
    /\ client' = [client EXCEPT ![u].user = u,
                                ![u].profileCompleted = (client[u].getSession = "read_true"),
                                ![u].isLoading = FALSE, ![u].getSession = "done"]
    /\ reply' = Ok
    /\ UNCHANGED <<db, sess>>

\* lib/auth.signOut from the navigation of the layout: the session ends, the
\* callback clears the user and the layout redirects to /auth, which unmounts it
signOut(u) ==
    /\ sess[u].pc = "idle"
    /\ client[u].session /\ AppLayout(client[u]) = "Outlet"
    /\ client' = [client EXCEPT ![u] = NoClient]
    /\ reply' = Ok
    /\ UNCHANGED <<db, sess>>

\* the layout redirects to /auth or /complete-profile, or the tab is closed: the
\* layout unmounts
unmountAppLayout(u) ==
    /\ client[u].mounted
    /\ client' = [client EXCEPT ![u] = [NoClient EXCEPT !.session = client[u].session]]
    /\ reply' = Ok
    /\ UNCHANGED <<db, sess>>

(***************************************************************************)
(* SpecProfile: the pages of an account from sign in on: the layout of the *)
(* protected routes, the onboarding form, sign out.  Everyone has signed   *)
(* up; the last user's profile insert failed.                              *)
(***************************************************************************)
InitProfile ==
    /\ auth_users = {[id |-> u, email |-> StudentEmail(u)] : u \in Users}
    /\ profiles = {[user_id |-> u, profile_completed |-> FALSE]
                      : u \in Users \ {MaxUsers}}
    /\ user_roles = {[user_id |-> u, role |-> "student"] : u \in Users \ {MaxUsers}}
    /\ events = {}
    /\ registrations = {}
    /\ teams = {}
    /\ team_members = {}
    /\ client = [u \in Users |-> NoClient]
    /\ sess = [u \in Users |-> IdleSession]
    /\ reply = Ok

NextProfile ==
    \E u \in Users :
        \/ signIn(u)
        \/ signOut(u)
        \/ onSubmit(u)
        \/ mountAppLayout(u)
        \/ onAuthStateChange(u)
        \/ onAuthStateChangeFetch(u)
        \/ onAuthStateChangeSet(u)
        \/ getSessionThen(u)
        \/ getSessionFetch(u)
        \/ getSessionSet(u)
        \/ unmountAppLayout(u)

SpecProfile == InitProfile /\ [][NextProfile]_vars


(***************************************************************************)
(* Requests that update and delete events, teams and memberships.  Of      *)
(* these the pages send the delete of an event (ManageEvents.deleteEvent); *)
(* the others are requests a signed-in user can send to the store, which   *)
(* answers them by its policies.  A row the policy hides from the          *)
(* requester is skipped without an error.  The store never gives the id of *)
(* a deleted row to a new row; here a new row may get it, so a session     *)
(* that still holds the id of a deleted row may, beyond what the store     *)
(* allows, find a newer row under it.                                      *)
(***************************************************************************)
\* a request to update is_paid of the event with this id
UpdateEventById(u, e, paid) ==
    /\ sess[u].pc = "idle"
    /\ LET hit == {ev \in events : ev.id = e /\ EventUpdateAllowed(auth_uid(u), ev)}
       IN /\ events' = (events \ hit) \cup {[ev EXCEPT !.is_paid = paid] : ev \in hit}
          /\ reply' = Reply("UpdateEventById", u, IF hit = {} THEN "no_rows" ELSE "ok")
    /\ UNCHANGED <<auth_users, profiles, user_roles, registrations, teams, team_members,
                   sess, client>>

\* the delete of an event without the cascades, for comparison
DeleteEventByIdNoCascade(u, e) ==
    /\ sess[u].pc = "idle"
    /\ LET hit == {ev \in events : ev.id = e /\ EventDeleteAllowed(auth_uid(u), ev)}
       IN /\ events' = events \ hit
          /\ reply' = Reply("deleteEvent", u, IF hit = {} THEN "no_rows" ELSE "ok")
    /\ UNCHANGED <<auth_users, profiles, user_roles, registrations, teams, team_members,
                   sess, client>>

\* the request of ManageEvents.deleteEvent: delete from events where id = e, with
\* ON DELETE CASCADE of registrations.event_id, teams.event_id and
\* team_members.team_id
DeleteEventById(u, e) ==
    /\ sess[u].pc = "idle"
    /\ LET hit == {ev \in events : ev.id = e /\ EventDeleteAllowed(auth_uid(u), ev)}
           gone == {ev.id : ev \in hit}
           goneTeams == {t.id : t \in {x \in teams : x.event_id \in gone}}
       IN /\ events' = events \ hit
          /\ registrations' = {r \in registrations : r.event_id \notin gone}
          /\ teams' = {t \in teams : t.event_id \notin gone}
          /\ team_members' = {m \in team_members : m.team_id \notin goneTeams}
          /\ reply' = Reply("deleteEvent", u, IF hit = {} THEN "no_rows" ELSE "ok")
    /\ UNCHANGED <<auth_users, profiles, user_roles, sess, client>>

\* a request to update team_code of the team with this id; team_code is UNIQUE
UpdateTeamById(u, teamId, c) ==
    /\ sess[u].pc = "idle"
    /\ LET hit == {t \in teams : t.id = teamId /\ TeamUpdateAllowed(auth_uid(u), t)}
           res == IF hit = {} THEN "no_rows"
                  ELSE IF \E t \in teams \ hit : t.team_code = c
                       THEN "teams_team_code_key"
                  ELSE "ok"
       IN /\ teams' = IF res = "ok"
                      THEN (teams \ hit) \cup {[t EXCEPT !.team_code = c] : t \in hit}
                      ELSE teams
          /\ reply' = Reply("UpdateTeamById", u, res)
    /\ UNCHANGED <<auth_users, profiles, user_roles, events, registrations, team_members,
                   sess, client>>

\* a request to delete the team with this id, with ON DELETE CASCADE of
\* team_members.team_id
DeleteTeamById(u, teamId) ==
    /\ sess[u].pc = "idle"
    /\ LET hit == {t \in teams : t.id = teamId /\ TeamDeleteAllowed(auth_uid(u), t)}
           gone == {t.id : t \in hit}
       IN /\ teams' = teams \ hit
          /\ team_members' = {m \in team_members : m.team_id \notin gone}
          /\ reply' = Reply("DeleteTeamById", u, IF hit = {} THEN "no_rows" ELSE "ok")
    /\ UNCHANGED <<auth_users, profiles, user_roles, events, registrations, sess, client>>

\* a request to delete the membership with this id
DeleteMemberById(u, memberId) ==
    /\ sess[u].pc = "idle"
    /\ LET hit == {m \in team_members :
                      m.id = memberId /\ MemberDeleteAllowed(auth_uid(u), m)}
       IN /\ team_members' = team_members \ hit
          /\ reply' = Reply("DeleteMemberById", u, IF hit = {} THEN "no_rows" ELSE "ok")
    /\ UNCHANGED <<auth_users, profiles, user_roles, events, registrations, teams,
                   sess, client>>

(***************************************************************************)
(* Spec: the registration workflow of an individual event.                 *)
(***************************************************************************)
Next ==
    \E u \in Users :
        \/ \E f \in IndividualForms : CreateEvent(u, f)
        \/ \E e \in EventIds : fetchEventDetails(u, e)
        \/ \E e \in EventIds : handleRegister(u, e)
        \/ \E e \in EventIds : listHandleRegister(u, e)
        \/ \E e \in EventIds : handleCancelRegistration(u, e)
        \/ \E r \in RegIds, ns \in {"approved", "rejected"} :
              updateRegistrationStatus(u, r, ns)

Spec == Init /\ [][Next]_vars

(***************************************************************************)
(* SpecCapacity: the event page of an individual event with a small        *)
(* capacity, opened by several users.                                      *)
(***************************************************************************)
CapacityForms ==
    {[registration_type |-> "individual", is_paid |-> FALSE, max_team_size |-> Null,
      capacity |-> c] : c \in MinCapacity..MaxCapacity}

NextCapacity ==
    \E u \in Users :
        \/ \E f \in CapacityForms : CreateEvent(u, f)
        \/ \E e \in EventIds : fetchEventDetails(u, e)
        \/ \E e \in EventIds : handleRegister(u, e)
        \/ \E e \in EventIds : listHandleRegister(u, e)
        \/ \E e \in EventIds : handleCancelRegistration(u, e)
        \/ \E r \in RegIds, ns \in {"approved", "rejected"} :
              updateRegistrationStatus(u, r, ns)

SpecCapacity == Init /\ [][NextCapacity]_vars

(***************************************************************************)
(* SpecTeam: the registration workflow of a team event.                    *)
(***************************************************************************)
\* the memberships of u the workflow specification stops at
OwnMembershipFree(u) ==
    Cardinality({m \in team_members : m.user_id = u}) < MaxWorkflowMemberships

NextTeam ==
    \E u \in Users :
        \/ \E f \in TeamForms : CreateEvent(u, f)
        \/ \E e \in EventIds : listHandleRegister(u, e)
        \/ \E e \in EventIds : handleCreateTeam(u, e)
        \/ generate_team_code_loop(u)
        \/ generate_team_code_return(u)
        \/ createTeamInsertTeam(u)
        \/ OwnMembershipFree(u) /\ createTeamInsertMember(u)
        \/ createTeamInsertRegistration(u)
        \/ teamRegistrationCreateInsertRegistration(u)
        \/ \E e \in EventIds, c \in Codes : handleJoinTeam(u, e, c)
        \/ joinTeamCheck(u)
        \/ OwnMembershipFree(u) /\ joinTeamInsertMember(u)
        \/ joinTeamInsertRegistration(u)
        \/ teamRegistrationJoinInsertRegistration(u)
        \/ \E t \in TeamIds, ns \in TeamDecisions : updateTeamStatus(u, t, ns)
        \/ updateTeamStatusUpdate(u)
        \/ \E t \in TeamIds, ns \in TeamDecisions : handleTeamApproval(u, t, ns)
        \/ handleTeamApprovalUpdate(u)

SpecTeam == Init /\ [][NextTeam]_vars

(***************************************************************************)
(* SpecPolicy: the store under requests of any signed-in user, whatever    *)
(* the pages offer; an admin is among the users and several events exist.  *)
(***************************************************************************)
\* the accounts of SpecPolicy: user 1 signed up with a staff address (admin), the
\* others as students, and user 2 has been promoted to president
InitPolicy ==
    /\ auth_users = {[id |-> 1, email |-> StaffEmail(1)]}
                     \cup {[id |-> u, email |-> StudentEmail(u)] : u \in Users \ {1}}
    /\ profiles = {[user_id |-> u, profile_completed |-> TRUE] : u \in Users}
    /\ client = [u \in Users |-> LoadedClient(u)]
    /\ user_roles = {[user_id |-> 1, role |-> "admin"],
                     [user_id |-> 2, role |-> "president"]}
                     \cup {[user_id |-> u, role |-> "student"] : u \in Users \ {1, 2}}
    /\ events = {}
    /\ registrations = {}
    /\ teams = {}
    /\ team_members = {}
    /\ sess = [u \in Users |-> IdleSession]
    /\ reply = Ok

\* the decisions SpecPolicy sends, and the one form its events are created from
PolicyDecisions == {"approved"}

PolicyForms == {f \in IndividualForms : ~f.is_paid}

NextPolicy ==
    \E u \in Users :
        \/ \E f \in PolicyForms : InsertEvent(u, f)
        \/ \E e \in EventIds : listHandleRegister(u, e)
        \/ \E r \in RegIds, ns \in PolicyDecisions : UpdateRegistrationById(u, r, ns)

SpecPolicy == InitPolicy /\ [][NextPolicy]_vars

(***************************************************************************)
(* SpecOfficers: the officer pages of a paid team event with several       *)
(* officers.  User 1 is an admin; user 2, a president, created the event;  *)
(* the last user has created a team on it and is registered, pending.      *)
(***************************************************************************)
OfficersDecisions == {"approved", "rejected"}

InitOfficers ==
    /\ auth_users = {[id |-> 1, email |-> StaffEmail(1)]}
                     \cup {[id |-> u, email |-> StudentEmail(u)] : u \in Users \ {1}}
    /\ profiles = {[user_id |-> u, profile_completed |-> TRUE] : u \in Users}
    /\ client = [u \in Users |-> LoadedClient(u)]
    /\ user_roles = {[user_id |-> 1, role |-> "admin"],
                     [user_id |-> 2, role |-> "president"]}
                     \cup {[user_id |-> u, role |-> "student"] : u \in Users \ {1, 2}}
    /\ events = {[id |-> 1, created_by |-> 2, registration_type |-> "team",
                  is_paid |-> TRUE, capacity |-> DefaultCapacity,
                  max_team_size |-> MaxTeamSizeInput]}
    /\ teams = {[id |-> Min(IdRange(MaxUsers, MaxOwnTeams)), event_id |-> 1,
                 team_code |-> 1, leader_id |-> MaxUsers]}
    /\ team_members = {[id |-> Min(IdRange(MaxUsers, MaxOwnMemberships)),
                        team_id |-> Min(IdRange(MaxUsers, MaxOwnTeams)),
                        user_id |-> MaxUsers]}
    /\ registrations = {[id |-> Min(IdRange(MaxUsers, MaxOwnRegistrations)),
                         user_id |-> MaxUsers, event_id |-> 1, status |-> "pending"]}
    /\ sess = [u \in Users |-> IdleSession]
    /\ reply = Ok

NextOfficers ==
    \E u \in Users :
        \/ \E e \in EventIds, c \in Codes : handleJoinTeam(u, e, c)
        \/ joinTeamCheck(u)
        \/ joinTeamInsertMember(u)
        \/ joinTeamInsertRegistration(u)
        \/ \E t \in TeamIds, ns \in OfficersDecisions : updateTeamStatus(u, t, ns)
        \/ updateTeamStatusUpdate(u)
        \/ \E t \in TeamIds, ns \in OfficersDecisions : handleTeamApproval(u, t, ns)
        \/ handleTeamApprovalUpdate(u)

SpecOfficers == InitOfficers /\ [][NextOfficers]_vars


(***************************************************************************)
(* SpecEvents: events under the requests of any signed-in user, whatever   *)
(* the pages offer, while the admin demotes the president.  It starts as   *)
(* SpecOfficers does: an admin, a president with a paid team event, and a  *)
(* student who leads a team on it.                                         *)
(***************************************************************************)
EventsForms == {f \in TeamForms : f.is_paid}

NextEvents ==
    \E u \in Users :
        \/ \E f \in EventsForms : InsertEvent(u, f)
        \/ \E e \in EventIds, paid \in BOOLEAN : UpdateEventById(u, e, paid)
        \/ \E e \in EventIds : DeleteEventById(u, e)
        \/ \E target \in Users : demoteToStudent(u, target)
        \/ \E e \in EventIds : listHandleRegister(u, e)

SpecEvents == InitOfficers /\ [][NextEvents]_vars

(***************************************************************************)
(* SpecTeams: teams and memberships under the requests of any signed-in    *)
(* user, next to joins of the team; it starts as SpecOfficers does.        *)
(***************************************************************************)
NextTeams ==
    \E u \in Users :
        \/ \E e \in EventIds, c \in Codes : handleJoinTeam(u, e, c)
        \/ joinTeamCheck(u)
        \/ joinTeamInsertMember(u)
        \/ joinTeamInsertRegistration(u)
        \/ \E t \in TeamIds, c \in Codes : UpdateTeamById(u, t, c)
        \/ \E t \in TeamIds : DeleteTeamById(u, t)
        \/ \E m \in MemberIds : DeleteMemberById(u, m)

SpecTeams == InitOfficers /\ [][NextTeams]_vars

(***************************************************************************)
(* SpecCascade: the delete of an event next to registrations and team      *)
(* creations in progress; it starts as SpecOfficers does.                  *)
(***************************************************************************)
NextCascade ==
    \E u \in Users :
        \/ \E e \in EventIds : DeleteEventById(u, e)
        \/ \E e \in EventIds : listHandleRegister(u, e)
        \/ \E e \in EventIds : handleCreateTeam(u, e)
        \/ generate_team_code_loop(u)
        \/ generate_team_code_return(u)
        \/ createTeamInsertTeam(u)
        \/ createTeamInsertMember(u)
        \/ teamRegistrationCreateInsertRegistration(u)

SpecCascade == InitOfficers /\ [][NextCascade]_vars


(***************************************************************************)
(* SpecCodes: team creations on an event that has a team already, more     *)
(* creations than the code space has codes left; it starts as SpecOfficers *)
(* does.  SpecCodesFair adds that random() is fair: a code that stays      *)
(* free while the loop runs is drawn at some turn.                         *)
(***************************************************************************)
NextCodes ==
    \E u \in Users :
        \/ \E e \in EventIds : listHandleRegister(u, e)
        \/ \E e \in EventIds : handleCreateTeam(u, e)
        \/ generate_team_code_loop(u)
        \/ generate_team_code_return(u)
        \/ createTeamInsertTeam(u)
        \/ createTeamInsertMember(u)
        \/ teamRegistrationCreateInsertRegistration(u)

SpecCodes == InitOfficers /\ [][NextCodes]_vars

SpecCodesFair ==
    /\ SpecCodes
    /\ \A u \in Users : \A c \in Codes : WF_vars(generate_team_code_draw(u, c))


(***************************************************************************)
(* SpecMembers: the event page of a paid team event: load, create a team,  *)
(* join a team, cancel the own registration, each click on a page that     *)
(* shows the user's registration as it is; it starts as SpecOfficers does. *)
(***************************************************************************)
\* the page of event e shows u's registration as the store holds it: it has been
\* loaded after the last change of it
PageFresh(u, e) == sess[u].reg[e] = OwnRegSnapshot(u, e)

NextMembers ==
    \E u \in Users :
        \/ \E e \in EventIds : fetchEventDetails(u, e)
        \/ \E e \in EventIds : PageFresh(u, e) /\ handleCancelRegistration(u, e)
        \/ \E e \in EventIds : PageFresh(u, e) /\ handleCreateTeam(u, e)
        \/ generate_team_code_loop(u)
        \/ generate_team_code_return(u)
        \/ createTeamInsertTeam(u)
        \/ createTeamInsertMember(u)
        \/ createTeamInsertRegistration(u)
        \/ \E e \in EventIds, c \in Codes : PageFresh(u, e) /\ handleJoinTeam(u, e, c)
        \/ joinTeamCheck(u)
        \/ joinTeamInsertMember(u)
        \/ joinTeamInsertRegistration(u)

SpecMembers == InitOfficers /\ [][NextMembers]_vars

(***************************************************************************)
(* Properties.                                                             *)
(***************************************************************************)
RegIdsIn(regs) == {r.id : r \in regs}

HasRegistration(regs, u, e) == \E r \in regs : r.user_id = u /\ r.event_id = e

UniqueKey == "registrations_user_id_event_id_key"

\* C1: at every step, the registrations after it hold at most one row per
\* (user, event); a row is added only for a pair that had none; the registration
\* insert of a team creation or a team join by a user who already has a
\* registration for the event is answered with the unique violation; and a step
\* answered with the unique violation leaves the registrations as they were.
C1_OneRegistrationPerUserEvent ==
    [][/\ \A r1, r2 \in registrations' :
             (r1.user_id = r2.user_id /\ r1.event_id = r2.event_id) => r1 = r2
       /\ \A r \in registrations' :
             r.id \notin RegIdsIn(registrations)
             => ~HasRegistration(registrations, r.user_id, r.event_id)
       /\ \A u \in Users :
             (/\ sess[u].pc \in {"ct_reg", "jt_reg"}
              /\ sess'[u].pc = "idle"
              /\ HasRegistration(registrations, u, sess[u].ev))
             => (/\ reply' = [op |-> HandlerOf(sess[u].pc), by |-> u, res |-> UniqueKey]
                 /\ registrations' = registrations)
       /\ reply'.res = UniqueKey => registrations' = registrations
      ]_vars

\* C1, its case: a team creation or a team join was answered with the unique
\* violation of registrations, and its user still has exactly the one registration
C1_Witness ==
    /\ reply.res = UniqueKey
    /\ reply.op \in {"handleCreateTeam", "handleJoinTeam"}
    /\ \E t \in teams : \E m \in MembersOf(t.id) :
          /\ m.user_id = reply.by
          /\ Cardinality({r \in registrations :
                            r.user_id = reply.by /\ r.event_id = t.event_id}) = 1

\* C2: every registration that a step adds for an individual unpaid event is
\* approved.
C2_IndividualUnpaidCreatedApproved ==
    [][\A r \in registrations' :
          (/\ r.id \notin RegIdsIn(registrations)
           /\ \E ev \in events : /\ ev.id = r.event_id
                                  /\ ev.registration_type = "individual"
                                  /\ ~ev.is_paid)
          => r.status = "approved"
      ]_vars

\* C3: every registration that the last step of a team creation or of a team join
\* adds is pending when the event is paid and approved when it is not.
C3_TeamRegistrationStatusByPaid ==
    [][\A u \in Users :
          sess[u].pc \in {"ct_reg", "jt_reg"} =>
            \A r \in registrations' :
                (r.id \notin RegIdsIn(registrations) /\ r.user_id = u) =>
                  \A ev \in events :
                      ev.id = r.event_id =>
                        r.status = IF ev.is_paid THEN "pending" ELSE "approved"
      ]_vars

\* C4: when the update of an officer's approval of a team of a paid event has been
\* answered, the team's creation having finished before (its leader is registered),
\* every member the team then has (its leader included) holds an approved
\* registration for the event.
C4_ApprovalApprovesEveryMember ==
    [][\A u \in Users :
          (/\ sess[u].pc \in {"ts_update", "ta_update"}
           /\ sess'[u].pc = "idle"
           /\ sess[u].st = "approved"
           /\ \E ev \in events : ev.id = sess[u].ev /\ ev.is_paid
           /\ \E t \in teams :
                 t.id = sess[u].team
                 /\ HasRegistration(registrations, t.leader_id, sess[u].ev))
          => \A m \in team_members' :
                m.team_id = sess[u].team =>
                  \E r \in registrations' : /\ r.user_id = m.user_id
                                            /\ r.event_id = sess[u].ev
                                            /\ r.status = "approved"
      ]_vars

\* C5: a join that finds no team for the code and the event is answered
\* "team_not_found" and changes nothing; a join that found a team goes on from its
\* lookup only to the checks, which answer "already_member" when the user is a
\* member of the team, else "team_full" when the member count the lookup read has
\* reached the event's max_team_size, and in both cases end the handler with
\* team_members and registrations as they were; only a join that passes both checks
\* goes on to its inserts.
C5_FailedJoinCreatesNothing ==
    [][/\ reply'.res = "team_not_found" =>
             (/\ team_members' = team_members
              /\ registrations' = registrations
              /\ sess' = sess)
       /\ \A u \in Users :
             (sess[u].pc = "idle" /\ sess'[u].pc = "jt_check") =>
               \E t \in teams : t.id = sess'[u].team /\ t.event_id = sess'[u].ev
       /\ \A u \in Users :
             (sess[u].pc = "jt_check" /\ sess'[u].pc # "jt_check") =>
               LET member == \E m \in team_members :
                                 m.team_id = sess[u].team /\ m.user_id = u
                   size == (CHOOSE ev \in events : ev.id = sess[u].ev).max_team_size
                   full == size # Null /\ sess[u].cnt >= size
                   aborted(res) ==
                       /\ reply' = [op |-> "handleJoinTeam", by |-> u, res |-> res]
                       /\ sess'[u].pc = "idle"
                       /\ team_members' = team_members
                       /\ registrations' = registrations
               IN IF member THEN aborted("already_member")
                  ELSE IF full THEN aborted("team_full")
                  ELSE sess'[u].pc = "jt_member"
      ]_vars

\* C5, its case: a join was answered "team_full", and its user is neither a member
\* of a team nor registered
C5_Witness ==
    /\ reply.op = "handleJoinTeam"
    /\ reply.res = "team_full"
    /\ \A m \in team_members : m.user_id # reply.by
    /\ \A r \in registrations : r.user_id # reply.by
    /\ \E t \in teams :
          Cardinality(MembersOf(t.id)) >= EventById(t.event_id).max_team_size

\* C6: no team of an event with a max_team_size has more members than that.
C6_TeamSizeWithinMax ==
    \A t \in teams :
        \A ev \in events :
            (ev.id = t.event_id /\ ev.max_team_size # Null) =>
              Cardinality(MembersOf(t.id)) <= ev.max_team_size

\* C7: at every step, no two teams after it share a team_code, and the team insert
\* of a creation whose code is the code of an existing team adds no team and is
\* answered with the unique violation.
C7_TeamCodesUnique ==
    [][/\ \A t1, t2 \in teams' : t1.team_code = t2.team_code => t1 = t2
       /\ \A u \in Users :
             (/\ sess[u].pc = "ct_team"
              /\ sess'[u].pc # "ct_team"
              /\ \E t \in teams : t.team_code = sess[u].code)
             => (/\ teams' = teams
                 /\ reply' = [op |-> "handleCreateTeam", by |-> u,
                              res |-> "teams_team_code_key"])
      ]_vars

\* C7, its case: a team insert was answered with the unique violation of
\* team_code, and two teams exist
C7_Witness ==
    /\ reply.op = "handleCreateTeam"
    /\ reply.res = "teams_team_code_key"
    /\ Cardinality(teams) = 2
    /\ \A t \in teams : t.leader_id # reply.by

\* C8: when generate_team_code returns, no team has the code it returns.
C8_ReturnedCodeIsFree ==
    [][\A u \in Users :
          (sess[u].pc = "ct_return" /\ sess'[u].pc = "ct_team") =>
            ~\E t \in teams' : t.team_code = sess'[u].code
      ]_vars

\* C9: an update of a registration of event E requested by a user who is neither
\* the creator of E nor an admin changes no registration and hits no row.
C9_UpdateDeniedToOthers ==
    [][\A P \in Users :
          \A r \in registrations :
              \A ns \in Statuses :
                  (/\ ~\E ev \in events : ev.id = r.event_id /\ ev.created_by = P
                   /\ ~\E ur \in user_roles : ur.user_id = P /\ ur.role = "admin"
                   /\ UpdateRegistrationById(P, r.id, ns))
                  => (/\ registrations' = registrations
                      /\ reply' = [op |-> "updateRegistrationStatus", by |-> P,
                                   res |-> "no_rows"])
      ]_vars

\* C9, its case: the update by a president who created another event, of a
\* pending registration of an event created by someone else, hit no row
C9_Witness ==
    /\ reply.op = "updateRegistrationStatus"
    /\ reply.res = "no_rows"
    /\ has_role(reply.by, "president")
    /\ \E ev \in events : ev.created_by = reply.by
    /\ \E r \in registrations :
          /\ r.status = "pending"
          /\ r.user_id # reply.by
          /\ ~IsEventCreator(reply.by, r.event_id)
    /\ \A r \in registrations :
          IsEventCreator(reply.by, r.event_id) \/ r.status = "pending"

\* C10: no step removes a registration that is approved.
C10_ApprovedNeverRemoved ==
    [][\A r \in registrations :
          r.status = "approved" => r.id \in RegIdsIn(registrations')
      ]_vars

RolesOf(roles, u) == {r.role : r \in {x \in roles : x.user_id = u}}

\* C11: a role update requested by a user who is not an admin (a president, a
\* student, a user with no role) changes no row of user_roles and hits no row; the
\* promotion an admin requests on a user listed as student makes every role row of
\* the user president; and a step that turns a student row into a president row is
\* the update of a user who is an admin when it is requested.
C11_PromotionOnlyByAdmin ==
    [][/\ (reply'.op = "UpdateRoleByUserId" /\ ~has_role(reply'.by, "admin"))
             => (user_roles' = user_roles /\ reply'.res = "no_rows")
       /\ \A P \in Users, t \in Users :
             (/\ reply'.by = P
              /\ has_role(P, "admin")
              /\ RolesOf(user_roles, t) = {"student"}
              /\ promoteToPresident(P, t))
             => RolesOf(user_roles', t) = {"president"}
       /\ \A r \in user_roles :
             (/\ r.role = "student"
              /\ r \notin user_roles'
              /\ [r EXCEPT !.role = "president"] \in user_roles' \ user_roles)
             => (reply'.op = "UpdateRoleByUserId" /\ has_role(reply'.by, "admin"))
      ]_vars

\* C11, its case: a president, promoted by the admin, requested the promotion of a
\* student; the request hit no row and the student is still a student
C11_Witness ==
    /\ reply.op = "UpdateRoleByUserId"
    /\ reply.res = "no_rows"
    /\ RolesOf(user_roles, reply.by) = {"president"}
    /\ \E t \in Users \ {reply.by} : RolesOf(user_roles, t) = {"student"}
    /\ \E a \in Users : RolesOf(user_roles, a) = {"admin"}

\* C12: a step after which a user holds the role president or admin, not having
\* held it before, is either the role insert of the user's signup, with the role
\* derived from the address, or the insert or update requested by a user who is an
\* admin when it is requested.
C12_NoSelfEscalation ==
    [][\A u \in Users :
          \A role \in RolesOf(user_roles', u) \ RolesOf(user_roles, u) :
              role \in {"president", "admin"} =>
                \/ /\ sess[u].pc = "su_role"
                   /\ sess'[u].pc = "idle"
                   /\ role = getRoleFromEmail(sess[u].email)
                \/ /\ reply'.op \in {"InsertRole", "UpdateRoleByUserId"}
                   /\ has_role(reply'.by, "admin")
      ]_vars

\* C13: no user has more than one row in user_roles.
C13_AtMostOneRoleAssignment ==
    \A u \in Users : Cardinality({r \in user_roles : r.user_id = u}) <= 1

\* the pieces of an address after its last "@"
DomainOf(email) ==
    LET at == {i \in 1..Len(email) : email[i] = "@"}
        last == CHOOSE i \in at : \A j \in at : j <= i
    IN IF at = {} THEN email ELSE SubSeq(email, last + 1, Len(email))

\* the address is in the staff domain: what follows its "@" is iul.ac.in, as written
InStaffDomain(email) == DomainOf(email) = <<"iul.ac.in">>

C15_SignUpFailsOnInsertError ==
    [][\A u \in Users :
          /\ (sess[u].pc = "su_profile" /\ sess'[u].pc = "su_role") =>
                /\ \E p \in profiles' : p.user_id = u
                /\ \A p \in profiles' \ profiles : ~p.profile_completed
          /\ (/\ sess[u].pc = "su_role"
              /\ sess'[u].pc = "idle"
              /\ signUpAfterInsert(reply'.res) = "continue") =>
                /\ \E p \in profiles' : p.user_id = u
                /\ \E r \in user_roles' : r.user_id = u
      ]_vars

ProfileCompletedOf(u) == \E p \in profiles : p.user_id = u /\ p.profile_completed

\* the screens that must not be shown before the profile is completed
ProtectedScreens ==
    {"/dashboard", "/events", "/events/:id", "/registrations", "/events/manage",
     "/events/create", "/admin", "/admin/users"}

C17_CompletedStaysCompleted ==
    [][\A u \in Users : ProfileCompletedOf(u) => ProfileCompletedOf(u)']_vars

RegistrationsOf(e) == {r \in registrations : r.event_id = e}

\* C18: the capacity is checked only against the count the page holds: a Register
\* click on a page that holds no registration and a count below the capacity
\* inserts the registration whenever the user has none for the event, however
\* many registrations the event has by then.
C18_CapacityCheckedOnPageCountOnly ==
    [][\A u \in Users, e \in EventIds :
          (/\ \E ev \in events : ev.id = e
           /\ sess[u].reg[e] = NoReg
           /\ ~HasRegistration(registrations, u, e)
           /\ handleRegister(u, e))
          => (/\ sess[u].count[e] < EventById(e).capacity
              /\ HasRegistration(registrations', u, e)
              /\ Cardinality(registrations') = Cardinality(registrations) + 1)
      ]_vars

\* C18, its case: two users opened the page of an event while it had room, both
\* pages counted less than the capacity, both registered, and the event has more
\* registrations than its capacity
C18_Witness ==
    \E e \in EventIds :
        /\ \E ev \in events : ev.id = e
        /\ Cardinality(RegistrationsOf(e)) > EventById(e).capacity
        /\ \E u1, u2 \in Users :
              /\ u1 # u2
              /\ \A u \in {u1, u2} :
                    /\ sess[u].reg[e] = OwnRegSnapshot(u, e)
                    /\ sess[u].reg[e].status = "approved"
                    /\ sess[u].count[e] <= EventById(e).capacity

\* C19: every registration that a step adds for an individual paid event is
\* approved, as for an unpaid one.
C19_IndividualPaidCreatedApproved ==
    [][\A r \in registrations' :
          (/\ r.id \notin RegIdsIn(registrations)
           /\ \E ev \in events : /\ ev.id = r.event_id
                                  /\ ev.registration_type = "individual"
                                  /\ ev.is_paid)
          => r.status = "approved"
      ]_vars

\* C20: no step of the officer pages changes the status of a registration that is
\* approved or rejected.
C20_OnlyPendingIsDecided ==
    [][\A r \in registrations :
          r.status \in {"approved", "rejected"} =>
            \A r2 \in registrations' : r2.id = r.id => r2.status = r.status
      ]_vars


\* C21: every step that changes the status of a registration is an update requested
\* by the creator of its event or by an admin, and every registration a step adds
\* in state approved is one for an unpaid event: a registration is approved only
\* by such an update or at its creation for an unpaid event.
C21_ApprovedOnlyByOfficerOrUnpaid ==
    [][/\ \A r \in registrations : \A r2 \in registrations' :
             (r2.id = r.id /\ r2.status # r.status) =>
                \E P \in Users :
                    /\ IsEventCreator(P, r.event_id) \/ has_role(P, "admin")
                    /\ UpdateRegistrationById(P, r.id, r2.status)
       /\ \A r2 \in registrations' :
             (r2.id \notin RegIdsIn(registrations) /\ r2.status = "approved") =>
                \E ev \in events : ev.id = r2.event_id /\ ~ev.is_paid
      ]_vars


\* C22: a team creation writes in three steps, each to one table: the team, then
\* the leader's membership, then the leader's registration; and a step of it that
\* fails after an earlier one went through ends the handler with all three tables
\* as they were, so the team (and, after the second step, the leader's membership)
\* written before is still there.
C22_CreateTeamNoRollback ==
    [][\A u \in Users :
          /\ (sess[u].pc = "ct_team" /\ sess'[u].pc # "ct_team") =>
                (team_members' = team_members /\ registrations' = registrations)
          /\ (sess[u].pc = "ct_member" /\ sess'[u].pc # "ct_member") =>
                (teams' = teams /\ registrations' = registrations)
          /\ (sess[u].pc = "ct_reg" /\ sess'[u].pc # "ct_reg") =>
                (teams' = teams /\ team_members' = team_members)
          /\ (/\ sess[u].pc \in {"ct_member", "ct_reg"}
              /\ sess'[u].pc = "idle"
              /\ reply'.res # "ok")
             => /\ teams' = teams
                /\ team_members' = team_members
                /\ registrations' = registrations
                /\ \E t \in teams' : t.id = sess[u].team /\ t.leader_id = u
                /\ sess[u].pc = "ct_reg" =>
                      \E m \in team_members' :
                          m.team_id = sess[u].team /\ m.user_id = u
      ]_vars

\* C22, its case: the registration insert of a team creation failed, and the team
\* it had created and its leader's membership are there, with no registration
\* that this creation added
C22_Witness ==
    /\ reply.op = "handleCreateTeam"
    /\ reply.res # "ok"
    /\ sess[reply.by].pc = "idle"
    /\ \E t \in teams :
          /\ t.leader_id = reply.by
          /\ \E m \in team_members : m.team_id = t.id /\ m.user_id = reply.by
          /\ \A r \in registrations :
                (r.user_id = reply.by /\ r.event_id = t.event_id)
                => r.status = ListRegisterStatus(EventById(t.event_id))


EventIdsIn(evs) == {ev.id : ev \in evs}

\* C23: an insert into events requested by a user who at the request is neither
\* president nor admin is denied and adds nothing, and every step that adds an
\* event is the insert of a user who is president or admin then; an update or a
\* delete of an event requested by a user who is neither its creator nor an admin
\* hits no row and leaves the events as they were, and every step that changes or
\* removes an event is the request of its creator or of an admin.
C23_EventWritesByOfficersOnly ==
    [][/\ \A P \in Users :
             ~(has_role(P, "president") \/ has_role(P, "admin")) =>
                \A f \in EventsForms :
                    InsertEvent(P, f) =>
                       /\ events' = events
                       /\ reply' = [op |-> "CreateEvent", by |-> P, res |-> "denied"]
       /\ (EventIdsIn(events') \ EventIdsIn(events) # {}) =>
             \E P \in Users :
                 /\ has_role(P, "president") \/ has_role(P, "admin")
                 /\ \E f \in EventsForms : InsertEvent(P, f)
       /\ \A ev \in events :
             \A P \in Users :
                 ~(P = ev.created_by \/ has_role(P, "admin")) =>
                    /\ \A paid \in BOOLEAN :
                          UpdateEventById(P, ev.id, paid) =>
                             /\ events' = events
                             /\ reply' = [op |-> "UpdateEventById", by |-> P,
                                          res |-> "no_rows"]
                    /\ DeleteEventById(P, ev.id) =>
                          /\ events' = events
                          /\ registrations' = registrations
                          /\ reply' = [op |-> "deleteEvent", by |-> P,
                                       res |-> "no_rows"]
       /\ \A ev \in events :
             ev \notin events' =>
                \E P \in Users :
                    /\ P = ev.created_by \/ has_role(P, "admin")
                    /\ \/ DeleteEventById(P, ev.id)
                       \/ \E paid \in BOOLEAN : UpdateEventById(P, ev.id, paid)
      ]_vars

\* C23, its case: the president who created an event has been demoted to student,
\* and the insert of another event the former president then requested was denied,
\* the event created before still there
C23_Witness ==
    /\ reply = [op |-> "CreateEvent", by |-> 2, res |-> "denied"]
    /\ has_role(2, "student")
    /\ ~has_role(2, "president")
    /\ \E ev \in events : ev.created_by = 2
    /\ Cardinality(events) < MaxEvents


\* C24: a request to update or to delete a team hits the team exactly when its
\* requester is the team's leader, the creator of the team's event or an admin,
\* and a request to delete a membership hits it exactly when its requester is the
\* member, the leader of the team, the creator of the team's event or an admin; a
\* request that hits no row changes nothing.
C24_TeamWritesByLeaderCreatorAdmin ==
    [][/\ \A t \in teams : \A P \in Users :
             LET allowed == \/ P = t.leader_id
                            \/ IsEventCreator(P, t.event_id)
                            \/ has_role(P, "admin")
             IN /\ DeleteTeamById(P, t.id) =>
                      IF allowed THEN t \notin teams'
                      ELSE /\ teams' = teams
                           /\ reply' = [op |-> "DeleteTeamById", by |-> P,
                                        res |-> "no_rows"]
                /\ \A c \in Codes :
                      UpdateTeamById(P, t.id, c) =>
                         IF allowed THEN reply'.res # "no_rows"
                         ELSE /\ teams' = teams
                              /\ reply' = [op |-> "UpdateTeamById", by |-> P,
                                           res |-> "no_rows"]
       /\ \A m \in team_members : \A P \in Users :
             LET allowed == \/ P = m.user_id
                            \/ \E t \in teams :
                                  /\ t.id = m.team_id
                                  /\ \/ t.leader_id = P
                                     \/ IsEventCreator(P, t.event_id)
                            \/ has_role(P, "admin")
             IN DeleteMemberById(P, m.id) =>
                   IF allowed THEN m \notin team_members'
                   ELSE /\ team_members' = team_members
                        /\ reply' = [op |-> "DeleteMemberById", by |-> P,
                                     res |-> "no_rows"]
      ]_vars


\* C25: a step that removes an event leaves no registration and no team of it and
\* no membership of one of its teams, and after every step every registration and
\* every team refers to an event that exists and every membership to a team that
\* exists.
C25_DeleteEventCascades ==
    [][/\ \A ev \in events :
             ev.id \notin EventIdsIn(events') =>
                /\ \A r \in registrations' : r.event_id # ev.id
                /\ \A t \in teams' : t.event_id # ev.id
                /\ \A m \in team_members' :
                      \A t \in teams : t.event_id = ev.id => m.team_id # t.id
       /\ \A r \in registrations' : r.event_id \in EventIdsIn(events')
       /\ \A t \in teams' : t.event_id \in EventIdsIn(events')
       /\ \A m \in team_members' : \E t \in teams' : t.id = m.team_id
      ]_vars

\* C25, its case: the event, which had a team with a member and registrations, has
\* been deleted while a team creation on it was in progress, whose next insert the
\* store refused for the missing row it refers to
C25_Witness ==
    /\ events = {}
    /\ registrations = {}
    /\ teams = {}
    /\ team_members = {}
    /\ reply.op = "handleCreateTeam"
    /\ reply.res = "fk_violation"


\* every code of the code space is the team_code of a team
AllCodesUsed == \A c \in Codes : \E t \in teams : t.team_code = c

\* C26: a call of generate_team_code that is in its loop leaves the loop at some
\* time unless every code of the code space has come to be used by a team, and no
\* turn of the loop taken while every code is used by a team leaves the loop.
C26_GenerateTeamCodeTermination ==
    /\ \A u \in Users :
          (sess[u].pc = "ct_rpc") ~> (sess[u].pc # "ct_rpc" \/ AllCodesUsed)
    /\ [][\A u \in Users :
             (sess[u].pc = "ct_rpc" /\ AllCodesUsed) => sess'[u].pc = "ct_rpc"
         ]_vars

\* C26, its case: a call has returned the code that was left and its team has
\* been created with it, and another call is in the loop with every code used
C26_Witness ==
    /\ AllCodesUsed
    /\ Cardinality(teams) > 1
    /\ \E u \in Users : sess[u].pc = "ct_rpc"


\* the status of the registration of user p for event e, "none" when there is none
StatusOf(p, e) ==
    LET rows == {r \in registrations : r.user_id = p /\ r.event_id = e}
    IN IF rows = {} THEN "none" ELSE (CHOOSE r \in rows : TRUE).status

\* C27: whenever no handler is in progress, every member of a team has the
\* registration status of the team's leader for the team's event.
C27_MembersShareLeaderStatus ==
    (\A u \in Users : sess[u].pc = "idle") =>
        \A t \in teams :
            \A m \in MembersOf(t.id) :
                StatusOf(m.user_id, t.event_id) = StatusOf(t.leader_id, t.event_id)


\* C28: in every state in which a member of a team has a pending registration for
\* the team's event, some officer's page offers the decision on the team: the
\* participant sheet shows Approve Team / Reject on it, or the dashboard lists it
\* among the pending teams.
C28_PendingMemberCanBeDecided ==
    \A t \in teams :
        \A m \in MembersOf(t.id) :
            StatusOf(m.user_id, t.event_id) = "pending" =>
                \E u \in Users : TeamButtonsShown(u, t) \/ PendingTeamListed(u, t)


\* C29: in every state a user is a member of at most one team of an event.
C29_OneTeamPerEvent ==
    \A m1, m2 \in team_members :
        \A t1, t2 \in teams :
            (/\ m1.user_id = m2.user_id
             /\ t1.id = m1.team_id
             /\ t2.id = m2.team_id
             /\ t1.event_id = t2.event_id)
            => t1 = t2


\* C30: whenever no team creation and no team join is in progress, every membership
\* of a team is matched by a registration of its user for the team's event, and
\* the leader of every team is a member of it.
C30_MembershipsMatchRegistrations ==
    (\A u \in Users :
        HandlerOf(sess[u].pc) \notin {"handleCreateTeam", "handleJoinTeam"}) =>
        /\ \A m \in team_members :
              \A t \in teams :
                  t.id = m.team_id =>
                     HasRegistration(registrations, m.user_id, t.event_id)
        /\ \A t \in teams :
              \E m \in MembersOf(t.id) : m.user_id = t.leader_id

=============================================================================
